---- MODULE Spec2Model ----
(***************************************************************************)
(* pyICSC: the ICSC framed message protocol of src/pyICSC.py.              *)
(*                                                                         *)
(* One receiving station (an ICSC instance) is modelled in full: its       *)
(* configuration, its dispatch table, the bytes pending on its serial      *)
(* port, the bytes it writes, and the position of a process() call.  The   *)
(* peer's frame is built by the same send code.  The serial line may lose  *)
(* the tail of a frame or change its bytes.                                *)
(*                                                                         *)
(* Python values whose type decides a comparison (int, str, bytes) carry   *)
(* their type: 5 and chr(5) are different dictionary keys, b'\x04' and 4   *)
(* are different values.                                                   *)
(***************************************************************************)
EXTENDS Integers, Sequences, FiniteSets, TLC

\* ---------------------------------------------------------------- constants

\* curses.ascii control characters, imported at src/pyICSC.py:13
NUL == 0
SOH == 1
STX == 2
ETX == 3
EOT == 4
ENQ == 5
ACK == 6

SOH_IDX == 0
DEST_ID_IDX == 1
ORIG_ID_IDX == 2
CMD_IDX == 3
DAT_LEN_IDX == 4
STX_IDX == 5

ICSC_SYS_PING == ENQ
ICSC_SYS_PONG == ACK
ICSC_BROADCAST == NUL

MIN_MSG_LEN == 9

\* class FlowError(IntEnum)
NO_ERROR == 0
BAD_FORMAT == 1
VOID_MSG == 2
TO_SHORT_MSG == 3
WRONG_DEST_STATION == 5
BAD_LEN_FIELD == 6
BAD_CHECKSUM == 7
MISSING_SOH == 8
MISSING_STX == 9
MISSING_ETX == 10
MISSING_EOT == 11

\* ------------------------------------------------------------------- bounds

\* all sequences over S of length at most n
SeqsUpTo(S, n) == UNION {[1..k -> S] : k \in 0..n}

\* longest payload a peer sends
MaxPayload == 3
\* reads without data a process() call is followed through
MaxIdleReads == 1

\* ids of the receiving station (0 is accepted by the constructor)
StationIds == {0, 64}
\* ids of the sending peer
PeerIds == {65, 255}
\* destinations a peer addresses: broadcast and two stations
DestIds == {ICSC_BROADCAST, 64, 66}
\* commands a peer sends: ping and 'P'
CmdIds == {ICSC_SYS_PING, 80}
\* payload byte values
PayloadBytes == {EOT, 255}
\* the payloads a peer sends
Payloads == SeqsUpTo(PayloadBytes, MaxPayload)
\* values line noise writes over a byte
NoiseBytes == {0, EOT, 255}
\* examples/SendData/Sender.py: the station, and whom it sends what
ExampleStation == [type |-> "str", val |-> <<66>>]
ExampleDest == [type |-> "str", val |-> <<65>>]
ExampleCmd == [type |-> "str", val |-> <<88>>]
ExampleNumber == [type |-> "int", val |-> <<5323>>]
ExampleText == [type |-> "str", val |-> <<72, 79, 76, 65, 65, 65, 65, 65>>]
ExampleList == [type |-> "list", val |-> <<1, 82, 99, 133>>]
\* a number that fits one byte
SmallNumber == [type |-> "int", val |-> <<7>>]
ExampleData == {ExampleNumber, ExampleText, ExampleList, SmallNumber}
\* Config.SEND_NUMBER_AS_STR, as Config sets it
SEND_NUMBER_AS_STR == FALSE

\* ------------------------------------------------------------ Python values

PyInt(n) == [type |-> "int", val |-> <<n>>]
PyStr(codes) == [type |-> "str", val |-> codes]
PyBytes(bs) == [type |-> "bytes", val |-> bs]
PyList(xs) == [type |-> "list", val |-> xs]

\* mutant: the types of the two values are not looked at
PyEq_untyped(a, b) == a.val = b.val

\* Python ==: values of different types are never equal
PyEq(a, b) == a.type = b.type /\ a.val = b.val

isinstance(v, t) == v.type = t

\* chr(n): the one-character string of code point n
chr(n) == PyStr(<<n>>)

\* ord(s) of a one-character string
ord(s) == s.val[1]

\* the empty dict {}
EmptyDict == <<>>

\* None, and a callback a caller sets as ON_TIMEOUT_CALLBACK
None == "None"
on_timeout == "on_timeout"

\* Python's 0-based data[i]
At(data, i) == data[i + 1]

\* mutant: the slice takes one byte more at its end
Slice_one_more(data, lo, hi) ==
    LET h == IF hi < 0 THEN Len(data) + hi ELSE hi
    IN  SubSeq(data, lo + 1, h + 1)

\* Python's data[lo:hi] with 0 <= lo, and hi counted from the end when negative
Slice(data, lo, hi) ==
    LET h == IF hi < 0 THEN Len(data) + hi ELSE hi
    IN  SubSeq(data, lo + 1, h)

RECURSIVE sum(_)
sum(xs) == IF xs = <<>> THEN 0 ELSE Head(xs) + sum(Tail(xs))

\* ------------------------------------------------------------------ encoder

\* str.encode(): UTF-8 of code points below 0x800
RECURSIVE encode(_)
encode(codes) ==
    IF codes = <<>> THEN <<>>
    ELSE LET c == Head(codes)
         IN  (IF c < 128 THEN <<c>>
              ELSE <<192 + (c \div 64), 128 + (c % 64)>>) \o encode(Tail(codes))

\* mutant: the decimal digits come out lowest first ('0' is 48)
str_reversed(n) ==
    LET RECURSIVE digits(_)
        digits(k) == IF k < 10 THEN <<48 + k>>
                     ELSE <<48 + (k % 10)>> \o digits(k \div 10)
    IN  PyStr(digits(n))

\* str(n) of a non-negative int: its decimal digits, highest first ('0' is 48)
str(n) ==
    LET RECURSIVE digits(_)
        digits(k) == IF k < 10 THEN <<48 + k>>
                     ELSE digits(k \div 10) \o <<48 + (k % 10)>>
    IN  PyStr(digits(n))

\* str_to_bytes(s): array('B', s.encode())
str_to_bytes(s) == encode(s.val)

\* mutant: destination and command change places
standardize_params_swapped(number_as_str, destination, command, data) ==
    [dest_id |-> IF isinstance(command, "str") THEN ord(command)
                 ELSE command.val[1],
     cmd     |-> IF isinstance(destination, "str") THEN ord(destination)
                 ELSE destination.val[1],
     data    |-> IF isinstance(data, "str") THEN str_to_bytes(data)
                 ELSE IF isinstance(data, "int")
                      THEN IF number_as_str THEN str_to_bytes(str(data.val[1]))
                           ELSE <<data.val[1]>>
                 ELSE data.val]

\* ids given as one-character strings become their code; a str payload is
\* encoded; a number is sent as its decimal digits when SEND_NUMBER_AS_STR is
\* set and as one byte otherwise; a list is sent as it is
standardize_params(number_as_str, destination, command, data) ==
    [dest_id |-> IF isinstance(destination, "str") THEN ord(destination)
                 ELSE destination.val[1],
     cmd     |-> IF isinstance(command, "str") THEN ord(command)
                 ELSE command.val[1],
     data    |-> IF isinstance(data, "str") THEN str_to_bytes(data)
                 ELSE IF isinstance(data, "int")
                      THEN IF number_as_str THEN str_to_bytes(str(data.val[1]))
                           ELSE <<data.val[1]>>
                 ELSE data.val]

\* mutant: a 7-bit checksum
calculate_checksum_7bit(header, data) == (sum(header) + sum(data)) % 128

calculate_checksum(header, data) == (sum(header) + sum(data)) % 256

\* mutant: the length byte is written after STX
send_len_after_stx(self_station, number_as_str, dest_id_, cmd_, data_) ==
    LET p == standardize_params(number_as_str, dest_id_, cmd_, data_)
        check_sum == calculate_checksum(
                        <<p.dest_id, self_station, p.cmd, Len(p.data)>>, p.data)
    IN  <<SOH, p.dest_id, self_station, p.cmd, STX, Len(p.data)>>
            \o p.data \o <<ETX>> \o <<check_sum>> \o <<EOT>>

\* the bytes send() hands to port.write
send(self_station, number_as_str, dest_id_, cmd_, data_) ==
    LET p == standardize_params(number_as_str, dest_id_, cmd_, data_)
        check_sum == calculate_checksum(
                        <<p.dest_id, self_station, p.cmd, Len(p.data)>>, p.data)
    IN  <<SOH, p.dest_id, self_station, p.cmd, Len(p.data), STX>>
            \o p.data \o <<ETX>> \o <<check_sum>> \o <<EOT>>

broadcast(self_station, number_as_str, command, data) ==
    send(self_station, number_as_str, PyInt(ICSC_BROADCAST), command, data)

\* ---------------------------------------------------------------- validator

\* mutant: ETX is looked at before STX
validate_fields_etx_first(data, etx_idx, eot_idx) ==
    IF At(data, SOH_IDX) # SOH THEN MISSING_SOH
    ELSE IF At(data, etx_idx) # ETX THEN MISSING_ETX
    ELSE IF At(data, STX_IDX) # STX THEN MISSING_STX
    ELSE IF At(data, eot_idx) # EOT THEN MISSING_EOT
    ELSE NO_ERROR

validate_fields(data, etx_idx, eot_idx) ==
    IF At(data, SOH_IDX) # SOH THEN MISSING_SOH
    ELSE IF At(data, STX_IDX) # STX THEN MISSING_STX
    ELSE IF At(data, etx_idx) # ETX THEN MISSING_ETX
    ELSE IF At(data, eot_idx) # EOT THEN MISSING_EOT
    ELSE NO_ERROR

Returned(error, msg) == [error |-> error, msg |-> msg]

\* mutant: a frame of MIN_MSG_LEN bytes is refused too
to_short_msg_inclusive(data) == Len(data) <= MIN_MSG_LEN

\* len_ < MIN_MSG_LEN
to_short_msg(data) == Len(data) < MIN_MSG_LEN

\* mutant: only a buffer shorter than its length field says is refused
bad_len_field_short_only(data) == Len(data) < MIN_MSG_LEN + At(data, DAT_LEN_IDX)

\* len_ != MIN_MSG_LEN + data[DAT_LEN_IDX]
bad_len_field(data) == Len(data) # MIN_MSG_LEN + At(data, DAT_LEN_IDX)

\* mutant: broadcast frames are not accepted
wrong_dest_station_no_broadcast(self_station, data) ==
    At(data, DEST_ID_IDX) # self_station

\* data[DEST_ID_IDX] != self.station and data[DEST_ID_IDX] != ICSC_BROADCAST
wrong_dest_station(self_station, data) ==
    /\ At(data, DEST_ID_IDX) # self_station
    /\ At(data, DEST_ID_IDX) # ICSC_BROADCAST

\* mutant: the checksum is compared before the markers are looked at
extract_fields_checksum_first(self_station, allow_bad_checksum, data) ==
    LET len_ == Len(data) IN
    IF to_short_msg(data) THEN Returned(TO_SHORT_MSG, EmptyDict)
    ELSE IF bad_len_field(data) THEN Returned(BAD_LEN_FIELD, EmptyDict)
    ELSE IF wrong_dest_station(self_station, data)
         THEN Returned(WRONG_DEST_STATION, EmptyDict)
    ELSE LET etx_idx == At(data, DAT_LEN_IDX) + STX_IDX + 1
             eot_idx == etx_idx + 2
             field_error == validate_fields(data, etx_idx, eot_idx)
             payload == Slice(data, STX_IDX + 1, -3)
             checksum_idx == len_ - 2
             header == <<At(data, DEST_ID_IDX), At(data, ORIG_ID_IDX),
                         At(data, CMD_IDX), At(data, DAT_LEN_IDX)>>
         IN  IF ~allow_bad_checksum
                 /\ calculate_checksum(header, payload) # At(data, checksum_idx)
             THEN Returned(BAD_CHECKSUM, EmptyDict)
             ELSE IF field_error # NO_ERROR THEN Returned(field_error, EmptyDict)
             ELSE Returned(NO_ERROR,
                           [dest_id |-> chr(At(data, DEST_ID_IDX)),
                            orig_id |-> chr(At(data, ORIG_ID_IDX)),
                            cmd     |-> chr(At(data, CMD_IDX)),
                            dat_len |-> At(data, DAT_LEN_IDX),
                            data    |-> payload])

\* mutant: ALLOW_DATA_WITH_BAD_CHECKSUM lets wrong markers through as well
extract_fields_allow_any(self_station, allow_bad_checksum, data) ==
    LET len_ == Len(data) IN
    IF to_short_msg(data) THEN Returned(TO_SHORT_MSG, EmptyDict)
    ELSE IF bad_len_field(data) THEN Returned(BAD_LEN_FIELD, EmptyDict)
    ELSE IF wrong_dest_station(self_station, data)
         THEN Returned(WRONG_DEST_STATION, EmptyDict)
    ELSE LET etx_idx == At(data, DAT_LEN_IDX) + STX_IDX + 1
             eot_idx == etx_idx + 2
             field_error == validate_fields(data, etx_idx, eot_idx)
             payload == Slice(data, STX_IDX + 1, -3)
             checksum_idx == len_ - 2
             header == <<At(data, DEST_ID_IDX), At(data, ORIG_ID_IDX),
                         At(data, CMD_IDX), At(data, DAT_LEN_IDX)>>
         IN  IF ~allow_bad_checksum /\ field_error # NO_ERROR
             THEN Returned(field_error, EmptyDict)
             ELSE IF ~allow_bad_checksum
                      /\ calculate_checksum(header, payload) # At(data, checksum_idx)
                  THEN Returned(BAD_CHECKSUM, EmptyDict)
             ELSE Returned(NO_ERROR,
                           [dest_id |-> chr(At(data, DEST_ID_IDX)),
                            orig_id |-> chr(At(data, ORIG_ID_IDX)),
                            cmd     |-> chr(At(data, CMD_IDX)),
                            dat_len |-> At(data, DAT_LEN_IDX),
                            data    |-> payload])

extract_fields(self_station, allow_bad_checksum, data) ==
    LET len_ == Len(data) IN
    IF to_short_msg(data) THEN Returned(TO_SHORT_MSG, EmptyDict)
    ELSE IF bad_len_field(data) THEN Returned(BAD_LEN_FIELD, EmptyDict)
    ELSE IF wrong_dest_station(self_station, data)
         THEN Returned(WRONG_DEST_STATION, EmptyDict)
    ELSE LET etx_idx == At(data, DAT_LEN_IDX) + STX_IDX + 1
             eot_idx == etx_idx + 2
             field_error == validate_fields(data, etx_idx, eot_idx)
             payload == Slice(data, STX_IDX + 1, -3)
             checksum_idx == len_ - 2
             header == <<At(data, DEST_ID_IDX), At(data, ORIG_ID_IDX),
                         At(data, CMD_IDX), At(data, DAT_LEN_IDX)>>
         IN  IF field_error # NO_ERROR THEN Returned(field_error, EmptyDict)
             ELSE IF ~allow_bad_checksum
                      /\ calculate_checksum(header, payload) # At(data, checksum_idx)
                  THEN Returned(BAD_CHECKSUM, EmptyDict)
             ELSE Returned(NO_ERROR,
                           [dest_id |-> chr(At(data, DEST_ID_IDX)),
                            orig_id |-> chr(At(data, ORIG_ID_IDX)),
                            cmd     |-> chr(At(data, CMD_IDX)),
                            dat_len |-> At(data, DAT_LEN_IDX),
                            data    |-> payload])

\* ---------------------------------------------------------------- transport

\* serial.Serial.read_until(EOT): the pending bytes through the first EOT, or,
\* when no EOT arrives before the timeout, everything pending (possibly nothing)
read_until(pending) ==
    IF \E i \in 1..Len(pending) : pending[i] = EOT
    THEN LET i == CHOOSE j \in 1..Len(pending) :
                     /\ pending[j] = EOT
                     /\ \A k \in 1..(j - 1) : pending[k] # EOT
         IN  [in_data |-> SubSeq(pending, 1, i),
              rest    |-> SubSeq(pending, i + 1, Len(pending))]
    ELSE [in_data |-> pending, rest |-> <<>>]

\* mutant: a TimeoutError is swallowed without calling ON_TIMEOUT_CALLBACK
read_from_serial_silent(on_timeout_callback, pending, timeout_error) ==
    IF timeout_error
    THEN [in_data |-> <<>>, rest |-> pending, callback |-> FALSE]
    ELSE [in_data |-> read_until(pending).in_data,
          rest |-> read_until(pending).rest, callback |-> FALSE]

\* read_from_serial: what read_until returns; when the read raises
\* TimeoutError instead, ON_TIMEOUT_CALLBACK is called if there is one and the
\* result is b''
read_from_serial(on_timeout_callback, pending, timeout_error) ==
    IF timeout_error
    THEN [in_data |-> <<>>, rest |-> pending,
          callback |-> on_timeout_callback # None]
    ELSE [in_data |-> read_until(pending).in_data,
          rest |-> read_until(pending).rest, callback |-> FALSE]

\* the read raises TimeoutError only when no byte is pending
TimeoutErrors(pending) == IF pending = <<>> THEN BOOLEAN ELSE {FALSE}

\* mutant: any buffer the validator answers BAD_LEN_FIELD is taken for a
\* truncated message
is_truncated_msg_any_end(in_data_, error) == error = BAD_LEN_FIELD

\* in_data.endswith(bytearray([EOT])) and error == FlowError.BAD_LEN_FIELD
is_truncated_msg(in_data_, error) ==
    /\ Len(in_data_) > 0
    /\ in_data_[Len(in_data_)] = EOT
    /\ error = BAD_LEN_FIELD

\* mutant: any read that ends in EOT completes the frame
get_msg_recover_endswith(self_station, allow_bad_checksum, in_data_, remaining_eot) ==
    IF ~(Len(remaining_eot.val) > 0
         /\ remaining_eot.val[Len(remaining_eot.val)] = EOT)
    THEN [got |-> Returned(BAD_FORMAT, EmptyDict), in_data |-> in_data_,
          validated |-> 0]
    ELSE [got |-> extract_fields(self_station, allow_bad_checksum,
                                 Append(in_data_, EOT)),
          in_data |-> Append(in_data_, EOT), validated |-> 1]

\* get_msg after the recovery read (lines 206-209): what it returns, what
\* in_data then holds, and how many times it ran extract_fields
get_msg_recover(self_station, allow_bad_checksum, in_data_, remaining_eot) ==
    IF ~PyEq(remaining_eot, PyInt(EOT))
    THEN [got |-> Returned(BAD_FORMAT, EmptyDict), in_data |-> in_data_,
          validated |-> 0]
    ELSE [got |-> extract_fields(self_station, allow_bad_checksum,
                                 Append(in_data_, EOT)),
          in_data |-> Append(in_data_, EOT), validated |-> 1]

\* ------------------------------------------------------------------- faults

\* data[i] raises IndexError
IndexError(data, i) == i < -Len(data) \/ i >= Len(data)

\* v.append(x) raises AttributeError: bytes, what read_until returns, has no append
AttributeError(v) == isinstance(v, "bytes")

\* validate_fields raises: an index it reads, in the order it reads them, is
\* out of range
validate_fields_raises(data, etx_idx, eot_idx) ==
    IF IndexError(data, SOH_IDX) THEN TRUE
    ELSE IF At(data, SOH_IDX) # SOH THEN FALSE
    ELSE IF IndexError(data, STX_IDX) THEN TRUE
    ELSE IF At(data, STX_IDX) # STX THEN FALSE
    ELSE IF IndexError(data, etx_idx) THEN TRUE
    ELSE IF At(data, etx_idx) # ETX THEN FALSE
    ELSE IndexError(data, eot_idx)

\* extract_fields raises instead of returning
extract_fields_raises(self_station, allow_bad_checksum, data) ==
    LET len_ == Len(data) IN
    IF to_short_msg(data) THEN FALSE
    ELSE IF IndexError(data, DAT_LEN_IDX) THEN TRUE
    ELSE IF bad_len_field(data) THEN FALSE
    ELSE IF IndexError(data, DEST_ID_IDX) THEN TRUE
    ELSE IF wrong_dest_station(self_station, data) THEN FALSE
    ELSE LET etx_idx == At(data, DAT_LEN_IDX) + STX_IDX + 1
             eot_idx == etx_idx + 2
             checksum_idx == len_ - 2
         IN  IF validate_fields_raises(data, etx_idx, eot_idx) THEN TRUE
             ELSE IF validate_fields(data, etx_idx, eot_idx) # NO_ERROR THEN FALSE
             ELSE \/ IndexError(data, ORIG_ID_IDX)
                  \/ IndexError(data, CMD_IDX)
                  \/ ~allow_bad_checksum /\ IndexError(data, checksum_idx)

\* get_msg raises instead of returning, the recovery read bringing remaining_eot
get_msg_raises(self_station, allow_bad_checksum, in_data_, remaining_eot) ==
    IF extract_fields_raises(self_station, allow_bad_checksum, in_data_.val) THEN TRUE
    ELSE IF ~is_truncated_msg(in_data_.val,
                extract_fields(self_station, allow_bad_checksum, in_data_.val).error)
         THEN FALSE
    ELSE IF ~PyEq(remaining_eot, PyInt(EOT)) THEN FALSE
    ELSE \/ AttributeError(in_data_)
         \/ extract_fields_raises(self_station, allow_bad_checksum,
                                  Append(in_data_.val, EOT))

\* -------------------------------------------------------------------- state

VARIABLES
    station,             \* self.station
    config,              \* self.config
    commands_functions,  \* self.commands_functions: key -> handler
    registered,          \* command id -> handler of the latest add_command for it
    rx,                  \* bytes pending on self.port, not yet read
    sent,                \* the peer's send call whose frame is on the line (0 or 1)
    noise,               \* what the line did to that frame
    out,                 \* result of a direct extract_fields(rx) call (0 or 1)
    pc,                  \* position of the process() call
    in_data,             \* process(): in_data
    reads,               \* results of the read_from_serial calls of this process()
    timeouts,            \* reads of this process() that raised TimeoutError
    callbacks,           \* ON_TIMEOUT_CALLBACK calls of this process()
    validations,         \* number of extract_fields calls of this process()
    calls,               \* handlers this process() invoked, with their argument
    written,             \* frames this process() handed to port.write
    result               \* what process() returned (0 or 1)

vars == <<station, config, commands_functions, registered, rx, sent, noise, out,
          pc, in_data, reads, timeouts, callbacks, validations, calls, written,
          result>>

respond_to_ping == "__respond_to_ping"

\* handlers a caller registers, and the commands it registers them for
Handlers == {"f", "g"}
RegCmds == {ICSC_SYS_PING}

NoNoise == [kind |-> "none", at |-> {}]

\* an id given as an int or as a one-character string
AsPy(form, n) == IF form = "str" THEN chr(n) ELSE PyInt(n)

\* __init__: the dispatch table holds the ping responder under the int key
Init ==
    /\ station \in StationIds
    /\ config \in [ALLOW_DATA_WITH_BAD_CHECKSUM : BOOLEAN,
                   ON_TIMEOUT_CALLBACK : {None, on_timeout}]
    /\ commands_functions = (PyInt(ICSC_SYS_PING) :> respond_to_ping)
    /\ registered = [c \in RegCmds |-> None]
    /\ rx = <<>>
    /\ sent = <<>>
    /\ noise = NoNoise
    /\ out = <<>>
    /\ pc = "idle"
    /\ in_data = <<>>
    /\ reads = <<>>
    /\ timeouts = 0
    /\ callbacks = 0
    /\ validations = 0
    /\ calls = <<>>
    /\ written = <<>>
    /\ result = <<>>

receiver == <<pc, in_data, reads, timeouts, callbacks, validations, calls,
              written, result>>

\* ----------------------------------------------------------- peer and line

\* a peer station calls send(dest, cmd, data); its port.write puts the frame
\* on the line; the peer has its own SEND_NUMBER_AS_STR
peer_send(orig, number_as_str, dest, cmd, data, form) ==
    /\ sent = <<>>
    /\ rx = <<>>
    /\ out = <<>>
    /\ pc \in {"idle", "reading"}
    /\ rx' = send(orig, number_as_str, AsPy(form, dest), AsPy(form, cmd), data)
    /\ sent' = <<[orig |-> orig, dest |-> dest, cmd |-> cmd,
                  number_as_str |-> number_as_str, arg |-> data,
                  data |-> standardize_params(number_as_str, AsPy(form, dest),
                                              AsPy(form, cmd), data).data]>>
    /\ UNCHANGED <<station, config, commands_functions, registered, noise, out, receiver>>

OnLine ==
    /\ sent # <<>>
    /\ noise = NoNoise
    /\ out = <<>>
    /\ pc = "idle"

\* the line changes the byte at 0-based offset i to v
alter_byte(i, v) ==
    /\ OnLine
    /\ i \in 0..(Len(rx) - 1)
    /\ At(rx, i) # v
    /\ rx' = [rx EXCEPT ![i + 1] = v]
    /\ noise' = [kind |-> "alter", at |-> {i}]
    /\ UNCHANGED <<station, config, commands_functions, registered, sent, out, receiver>>

\* offsets of SOH, STX, ETX and EOT in a frame of the given length
MarkerIdx(len_) == {SOH_IDX, STX_IDX, len_ - 3, len_ - 1}

\* offsets of the bytes that frame the payload: the markers and the checksum
ControlIdx(len_) == MarkerIdx(len_) \cup {len_ - 2}

\* the line changes several of these bytes at once
alter_control(S, v) ==
    /\ OnLine
    /\ S \subseteq ControlIdx(Len(rx))
    /\ Cardinality(S) >= 2
    /\ \A i \in S : At(rx, i) # v
    /\ rx' = [k \in 1..Len(rx) |-> IF (k - 1) \in S THEN v ELSE rx[k]]
    /\ noise' = [kind |-> "control", at |-> S]
    /\ UNCHANGED <<station, config, commands_functions, registered, sent, out, receiver>>

RECURSIVE pow2(_)
pow2(k) == IF k = 0 THEN 1 ELSE 2 * pow2(k - 1)

\* b with bit k flipped
FlipBit(b, k) == IF (b \div pow2(k)) % 2 = 1 THEN b - pow2(k) ELSE b + pow2(k)

\* the line flips bit k of the byte at offset i
flip_bit(i, k) ==
    /\ OnLine
    /\ i \in 0..(Len(rx) - 1)
    /\ rx' = [rx EXCEPT ![i + 1] = FlipBit(@, k)]
    /\ noise' = [kind |-> "flip", at |-> {i}]
    /\ UNCHANGED <<station, config, commands_functions, registered, sent, out, receiver>>

\* the line loses the tail of the frame: only the first n bytes arrive
truncate(n) ==
    /\ OnLine
    /\ n \in 0..(Len(rx) - 1)
    /\ rx' = SubSeq(rx, 1, n)
    /\ noise' = [kind |-> "truncate", at |-> {}]
    /\ UNCHANGED <<station, config, commands_functions, registered, sent, out, receiver>>

\* a caller hands the received bytes to extract_fields directly
extract_fields_call ==
    /\ sent # <<>>
    /\ out = <<>>
    /\ pc = "idle"
    /\ out' = <<extract_fields(station, config.ALLOW_DATA_WITH_BAD_CHECKSUM, rx)>>
    /\ UNCHANGED <<station, config, commands_functions, registered, rx, sent, noise, receiver>>

\* ------------------------------------------------------------------ receiver

add_command(cmd, f) ==
    /\ pc = "idle"
    /\ sent = <<>>
    /\ LET key == IF isinstance(cmd, "int") THEN chr(cmd.val[1]) ELSE cmd
           id == IF isinstance(cmd, "int") THEN cmd.val[1] ELSE ord(cmd)
       IN  /\ commands_functions' = (key :> f) @@ commands_functions
           /\ registered' = [registered EXCEPT ![id] = f]
    /\ UNCHANGED <<station, config, rx, sent, noise, out, receiver>>

\* mutant: the check of the error is missing, every outcome is taken as a
\* decoded record
dispatch_error_unchecked(got) ==
    /\ IF "cmd" \in DOMAIN got.msg /\ got.msg.cmd \in DOMAIN commands_functions
       THEN LET f == commands_functions[got.msg.cmd]
            IN  /\ calls' = Append(calls, [f |-> f, msg |-> got.msg])
                /\ IF f = respond_to_ping
                   THEN written' = Append(written,
                            send(station, SEND_NUMBER_AS_STR,
                                 got.msg.orig_id, PyInt(ICSC_SYS_PONG),
                                 PyList(<<>>)))
                   ELSE UNCHANGED written
       ELSE UNCHANGED <<calls, written>>
    /\ result' = <<Returned(NO_ERROR, got.msg)>>

\* lines 219-226 of process(): return the error, or dispatch and return the record
dispatch(got) ==
    IF got.error # NO_ERROR
    THEN /\ result' = <<Returned(got.error, EmptyDict)>>
         /\ UNCHANGED <<calls, written>>
    ELSE /\ IF "cmd" \in DOMAIN got.msg /\ got.msg.cmd \in DOMAIN commands_functions
            THEN LET f == commands_functions[got.msg.cmd]
                 IN  /\ calls' = Append(calls, [f |-> f, msg |-> got.msg])
                     /\ IF f = respond_to_ping
                        THEN written' = Append(written,
                                 send(station, SEND_NUMBER_AS_STR,
                                      got.msg.orig_id, PyInt(ICSC_SYS_PONG),
                                      PyList(<<>>)))
                        ELSE UNCHANGED written
            ELSE UNCHANGED <<calls, written>>
         /\ result' = <<Returned(NO_ERROR, got.msg)>>

\* one pass of the loop of process(): read; on no data go round again;
\* otherwise get_msg validates, and either waits for the recovery read or
\* process() ends
loop_pass ==
    \E timeout_error \in TimeoutErrors(rx) :
    \E r \in {read_from_serial(config.ON_TIMEOUT_CALLBACK, rx, timeout_error)} :
    /\ rx' = r.rest
    /\ reads' = Append(reads, r.in_data)
    /\ timeouts' = timeouts + (IF timeout_error THEN 1 ELSE 0)
    /\ callbacks' = callbacks + (IF r.callback THEN 1 ELSE 0)
    /\ IF Len(r.in_data) = 0
       THEN /\ Len(reads) < MaxIdleReads
            /\ pc' = "reading"
            /\ UNCHANGED <<in_data, validations, calls, written, result>>
       ELSE \E got \in {extract_fields(station,
                           config.ALLOW_DATA_WITH_BAD_CHECKSUM, r.in_data)} :
                /\ in_data' = r.in_data
                /\ validations' = validations + 1
                /\ IF is_truncated_msg(r.in_data, got.error)
                   THEN /\ pc' = "recovering"
                        /\ UNCHANGED <<calls, written, result>>
                   ELSE /\ pc' = "done"
                        /\ dispatch(got)

\* process() is called and makes the first pass of its loop
process_call ==
    /\ pc = "idle"
    /\ out = <<>>
    /\ loop_pass
    /\ UNCHANGED <<station, config, commands_functions, registered, sent, noise, out>>

\* a later pass of the loop, after a read without data
process_read ==
    /\ pc = "reading"
    /\ loop_pass
    /\ UNCHANGED <<station, config, commands_functions, registered, sent, noise, out>>

\* get_msg after is_truncated_msg: the recovery read, and the rest of process()
recovery_read ==
    /\ pc = "recovering"
    /\ \E timeout_error \in TimeoutErrors(rx) :
       \E r \in {read_from_serial(config.ON_TIMEOUT_CALLBACK, rx, timeout_error)} :
       \E g \in {get_msg_recover(station, config.ALLOW_DATA_WITH_BAD_CHECKSUM,
                                 in_data, PyBytes(r.in_data))} :
           /\ rx' = r.rest
           /\ reads' = Append(reads, r.in_data)
           /\ timeouts' = timeouts + (IF timeout_error THEN 1 ELSE 0)
           /\ callbacks' = callbacks + (IF r.callback THEN 1 ELSE 0)
           /\ pc' = "done"
           /\ in_data' = g.in_data
           /\ validations' = validations + g.validated
           /\ dispatch(g.got)
    /\ UNCHANGED <<station, config, commands_functions, registered, sent, noise, out>>

\* process() has returned; the caller takes the result and may call again
process_return ==
    /\ pc = "done"
    /\ pc' = "idle"
    /\ in_data' = <<>>
    /\ reads' = <<>>
    /\ timeouts' = 0
    /\ callbacks' = 0
    /\ validations' = 0
    /\ calls' = <<>>
    /\ written' = <<>>
    /\ result' = <<>>
    /\ sent' = <<>>
    /\ noise' = NoNoise
    /\ UNCHANGED <<station, config, commands_functions, registered, rx, out>>

\* ------------------------------------------------------------ specifications

Send ==
    /\ sent = <<>>
    /\ rx = <<>>
    /\ \E orig \in PeerIds, dest \in DestIds, cmd \in CmdIds,
          data \in Payloads, form \in {"int", "str"} :
            peer_send(orig, SEND_NUMBER_AS_STR, dest, cmd, PyList(data), form)

\* the calls of examples/SendData/Sender.py, and a number below 256, with
\* SEND_NUMBER_AS_STR set or not; array('B', [n]) takes only n < 256
SendExample ==
    /\ sent = <<>>
    /\ rx = <<>>
    /\ \E number_as_str \in BOOLEAN, data \in ExampleData :
        /\ (isinstance(data, "int") /\ ~number_as_str) => data.val[1] < 256
        /\ peer_send(ord(ExampleStation), number_as_str, ord(ExampleDest),
                     ord(ExampleCmd), data, "str")

AlterByte == OnLine /\ \E i \in 0..(Len(rx) - 1), v \in NoiseBytes : alter_byte(i, v)

AlterControl ==
    OnLine /\ \E S \in SUBSET ControlIdx(Len(rx)), v \in NoiseBytes : alter_control(S, v)

FlipBitOnLine == OnLine /\ \E i \in 0..(Len(rx) - 1), k \in 0..7 : flip_bit(i, k)

Truncate == OnLine /\ \E n \in 0..(Len(rx) - 1) : truncate(n)

AddCommand ==
    pc = "idle" /\ sent = <<>> /\ \E c \in RegCmds, form \in {"int", "str"}, f \in Handlers :
        add_command(AsPy(form, c), f)

\* the station receiving frames from the line
Next ==
    \/ AddCommand
    \/ Send
    \/ AlterByte
    \/ Truncate
    \/ process_call
    \/ process_read
    \/ recovery_read
    \/ process_return

Spec == Init /\ [][Next]_vars

\* the frame codec alone: send, the line, extract_fields
NextCodec ==
    \/ Send
    \/ SendExample
    \/ AlterByte
    \/ AlterControl
    \/ FlipBitOnLine
    \/ Truncate
    \/ extract_fields_call

SpecCodec == Init /\ [][NextCodec]_vars

\* ------------------------------------------------- helpers of the claims

\* the send call whose frame is on the line
Call == sent[1]

\* the frame as the peer wrote it
Frame ==
    send(Call.orig, Call.number_as_str, PyInt(Call.dest), PyInt(Call.cmd), Call.arg)

\* extract_fields was called on the bytes of a frame
Extracted == sent # <<>> /\ out # <<>>

\* the frame is addressed to the receiving station, by id or by broadcast
Addressed == Call.dest = station \/ Call.dest = ICSC_BROADCAST

\* offsets of the payload bytes of a frame of the given length
PayloadIdx(len_) == (STX_IDX + 1)..(len_ - 4)

\* ----------------------------------------------------------------------- C1

\* C1 as stated: a frame built by send and not touched by the line, decoded on
\* a station whose id is the frame's destination or the broadcast id, gives
\* NO_ERROR and a record with the original dest, cmd, payload and length.
C1_Original ==
    (Extracted /\ noise = NoNoise
        /\ (station = Call.dest \/ station = ICSC_BROADCAST))
    => /\ out[1].error = NO_ERROR
       /\ out[1].msg = [dest_id |-> chr(Call.dest), orig_id |-> chr(Call.orig),
                        cmd |-> chr(Call.cmd), dat_len |-> Len(Call.data),
                        data |-> Call.data]

\* C1 amended: the round trip holds when the frame's destination is the
\* decoding station's id or the broadcast id; the record carries dest, origin
\* and cmd as one-character strings, the payload bytes and their count.
C1_RoundTrip ==
    (Extracted /\ noise = NoNoise /\ Addressed)
    => /\ out[1].error = NO_ERROR
       /\ out[1].msg = [dest_id |-> chr(Call.dest), orig_id |-> chr(Call.orig),
                        cmd |-> chr(Call.cmd), dat_len |-> Len(Call.data),
                        data |-> Call.data]

C1_Witness ==
    /\ Extracted /\ noise = NoNoise
    /\ Call.dest = ICSC_BROADCAST /\ station # ICSC_BROADCAST
    /\ Len(Call.data) = MaxPayload
    /\ out[1].error = NO_ERROR
    /\ out[1].msg.data = Call.data

\* ----------------------------------------------------------------------- C4

\* the line flipped one bit of the frame, at this offset
Flipped == Extracted /\ noise.kind = "flip"
FlipAt == CHOOSE i \in noise.at : TRUE

\* C4 as stated: with ALLOW_DATA_WITH_BAD_CHECKSUM unset, a single-bit flip in
\* DEST, ORIG, CMD, LEN or a payload byte of a frame sent to the station makes
\* extract_fields return BAD_CHECKSUM.
C4_Original ==
    (Flipped /\ Addressed /\ ~config.ALLOW_DATA_WITH_BAD_CHECKSUM
        /\ FlipAt \in {DEST_ID_IDX, ORIG_ID_IDX, CMD_IDX, DAT_LEN_IDX}
                         \cup PayloadIdx(Len(rx)))
    => out[1].error = BAD_CHECKSUM

\* C4 amended: with the flag unset, a single-bit flip in ORIG, CMD or a payload
\* byte gives BAD_CHECKSUM; a flip in LEN gives BAD_LEN_FIELD; a flip in DEST
\* gives WRONG_DEST_STATION, or BAD_CHECKSUM when the flipped DEST is the
\* station's id or the broadcast id.
C4_BitFlip ==
    (Flipped /\ Addressed /\ ~config.ALLOW_DATA_WITH_BAD_CHECKSUM)
    => /\ FlipAt \in {ORIG_ID_IDX, CMD_IDX} \cup PayloadIdx(Len(rx))
            => out[1].error = BAD_CHECKSUM
       /\ FlipAt = DAT_LEN_IDX => out[1].error = BAD_LEN_FIELD
       /\ FlipAt = DEST_ID_IDX
            => out[1].error =
                 IF At(rx, DEST_ID_IDX) \in {station, ICSC_BROADCAST}
                 THEN BAD_CHECKSUM ELSE WRONG_DEST_STATION

\* the top bit of a payload byte of 255 is flipped: the sum drops by 128
C4_Witness ==
    /\ Flipped /\ Addressed /\ ~config.ALLOW_DATA_WITH_BAD_CHECKSUM
    /\ FlipAt \in PayloadIdx(Len(rx))
    /\ At(Frame, FlipAt) = 255 /\ At(rx, FlipAt) = 127
    /\ out[1].error = BAD_CHECKSUM

\* ----------------------------------------------------------------------- C7

\* C7: for a buffer that passes the two length checks, extract_fields returns
\* WRONG_DEST_STATION exactly when the DEST byte is neither the station's id nor
\* broadcast; an untouched broadcast frame is accepted by every station, and an
\* untouched frame for a third station gives WRONG_DEST_STATION.
C7_DestFilter ==
    Extracted
    => /\ (Len(rx) >= 9 /\ Len(rx) = 9 + rx[5])
            => (out[1].error = WRONG_DEST_STATION
                  <=> (rx[2] # station /\ rx[2] # 0))
       /\ (noise = NoNoise /\ Call.dest = 0) => out[1].error = NO_ERROR
       /\ (noise = NoNoise /\ Call.dest # 0 /\ Call.dest # station)
            => out[1].error = WRONG_DEST_STATION

C7_Witness ==
    /\ Extracted /\ noise = NoNoise
    /\ station = 64 /\ Call.dest = 66
    /\ out[1].error = WRONG_DEST_STATION

\* ----------------------------------------------------------------------- C8

\* the line changed marker bytes of the frame and nothing else
MarkersAltered ==
    /\ Extracted
    /\ noise.kind \in {"alter", "control", "flip"}
    /\ noise.at \subseteq MarkerIdx(Len(rx))

\* C8: in a frame for this station whose SOH, STX, ETX or EOT bytes (one or
\* several) were changed, extract_fields reports the first changed marker in
\* the order SOH, STX, ETX, EOT.
C8_MarkerIntegrity ==
    (MarkersAltered /\ Addressed)
    => out[1].error =
         IF 0 \in noise.at THEN MISSING_SOH
         ELSE IF 5 \in noise.at THEN MISSING_STX
         ELSE IF (Len(Call.data) + 6) \in noise.at THEN MISSING_ETX
         ELSE MISSING_EOT

\* STX and ETX are both wrong: STX is reported
C8_Witness ==
    /\ MarkersAltered /\ Addressed
    /\ noise.at = {5, Len(Call.data) + 6}
    /\ Len(Call.data) > 0
    /\ out[1].error = MISSING_STX

\* ----------------------------------------------------------------------- C9

\* the checks of the validator on a buffer b, each from its offsets in b;
\* a check is looked at only when those before it passed
C9_Fails(b, k) ==
    LET n == b[5] IN
    CASE k = 1 -> Len(b) < 9
      [] k = 2 -> Len(b) # 9 + n
      [] k = 3 -> b[2] # station /\ b[2] # 0
      [] k = 4 -> b[1] # 1
      [] k = 5 -> b[6] # 2
      [] k = 6 -> b[n + 7] # 3
      [] k = 7 -> b[n + 9] # 4
      [] k = 8 -> /\ ~config.ALLOW_DATA_WITH_BAD_CHECKSUM
                  /\ b[n + 8] # (b[2] + b[3] + b[4] + b[5]
                                   + sum(SubSeq(b, 7, n + 6))) % 256

C9_Outcome ==
    <<TO_SHORT_MSG, BAD_LEN_FIELD, WRONG_DEST_STATION, MISSING_SOH, MISSING_STX,
      MISSING_ETX, MISSING_EOT, BAD_CHECKSUM>>

\* C9: extract_fields returns the outcome of check k exactly when check k fails
\* and every check before it passes, in the order TO_SHORT_MSG, BAD_LEN_FIELD,
\* WRONG_DEST_STATION, MISSING_SOH, MISSING_STX, MISSING_ETX, MISSING_EOT,
\* BAD_CHECKSUM (the checksum check being the one the configuration leaves on),
\* and NO_ERROR exactly when all eight pass.
C9_Precedence ==
    Extracted
    => /\ \A k \in 1..8 :
            out[1].error = C9_Outcome[k]
              <=> (/\ \A j \in 1..(k - 1) : ~C9_Fails(rx, j)
                   /\ C9_Fails(rx, k))
       /\ out[1].error = NO_ERROR <=> \A k \in 1..8 : ~C9_Fails(rx, k)
       /\ out[1].error \in {NO_ERROR} \cup {C9_Outcome[k] : k \in 1..8}

\* a marker and the checksum are both wrong: the marker is reported
C9_Witness ==
    /\ Extracted /\ Addressed
    /\ ~config.ALLOW_DATA_WITH_BAD_CHECKSUM
    /\ noise.kind = "control"
    /\ noise.at = {Len(rx) - 3, Len(rx) - 2}
    /\ out[1].error = MISSING_ETX

\* ---------------------------------------------------------------------- C10

\* the line changed the LEN byte of the frame and nothing else
LenAltered ==
    /\ Extracted
    /\ noise.kind \in {"alter", "flip"}
    /\ noise.at = {DAT_LEN_IDX}

\* C10: a frame built by send, for any destination, whose LEN byte alone was
\* changed to another value, makes extract_fields return BAD_LEN_FIELD.
C10_LenIntegrity == LenAltered => out[1].error = BAD_LEN_FIELD

\* LEN of a frame with the longest payload for a third station is changed to 0
C10_Witness ==
    /\ LenAltered
    /\ Call.dest # station /\ Call.dest # ICSC_BROADCAST
    /\ Len(Call.data) = MaxPayload /\ At(rx, DAT_LEN_IDX) = 0
    /\ out[1].error = BAD_LEN_FIELD

\* --------------------------------------- helpers of the receive claims

\* this process() call has returned
Done == pc = "done"

\* this process() call has read data
HasData == \E k \in 1..Len(reads) : reads[k] # <<>>

\* the first read of this call that brought data: the buffer given to get_msg
FirstDataIdx ==
    CHOOSE k \in 1..Len(reads) :
        reads[k] # <<>> /\ \A j \in 1..(k - 1) : reads[j] = <<>>
FirstData == reads[FirstDataIdx]

\* what the read after that one brought, or would bring
NextRead ==
    IF FirstDataIdx < Len(reads) THEN reads[FirstDataIdx + 1]
    ELSE read_from_serial(config.ON_TIMEOUT_CALLBACK, rx, FALSE).in_data

Validate(b) == extract_fields(station, config.ALLOW_DATA_WITH_BAD_CHECKSUM, b)

\* ----------------------------------------------------------------------- C2

\* a station with an id of its own
OwnId == station # ICSC_BROADCAST

\* get_msg was given a frame for this station, with a payload, that lacks only
\* its final EOT and ends in an EOT-valued byte, and the next read brings that
\* EOT
C2_Case ==
    /\ Done /\ HasData /\ OwnId
    /\ Len(FirstData) >= MIN_MSG_LEN
    /\ FirstData[Len(FirstData)] = EOT
    /\ Len(FirstData) + 1 = MIN_MSG_LEN + At(FirstData, DAT_LEN_IDX)
    /\ Validate(Append(FirstData, EOT)).error = NO_ERROR
    /\ NextRead = <<EOT>>

\* C2 as stated: in that case get_msg makes exactly one recovery read, appends
\* the EOT, validates a second time and process() returns NO_ERROR with the
\* decoded record.
C2_Original ==
    C2_Case
    => /\ Len(reads) = FirstDataIdx + 1
       /\ in_data = Append(FirstData, EOT)
       /\ validations = 2
       /\ result = <<Validate(Append(FirstData, EOT))>>

\* ----------------------------------------------------------------------- C3

\* process() decoded a ping frame for this station while the table holds no
\* caller's handler for ping
C3_Case ==
    /\ Done /\ OwnId
    /\ result[1].error = NO_ERROR
    /\ At(in_data, DEST_ID_IDX) = station
    /\ At(in_data, CMD_IDX) = ICSC_SYS_PING
    /\ chr(ICSC_SYS_PING) \notin DOMAIN commands_functions

\* C3 as stated: the built-in handler is dispatched and exactly one pong frame
\* (destination the ping's origin, origin this station, LEN 0) is written
\* before process() returns NO_ERROR.
C3_Original ==
    C3_Case
    => LET O == At(in_data, ORIG_ID_IDX) IN
       /\ calls = <<[f |-> respond_to_ping, msg |-> result[1].msg]>>
       /\ written = << <<SOH, O, station, ICSC_SYS_PONG, 0, STX, ETX,
                         (O + station + ICSC_SYS_PONG) % 256, EOT>> >>

\* ----------------------------------------------------------------------- C5

\* process() has read the untouched frame of a peer, sent to this station, whose
\* payload holds an EOT-valued byte
C5_Case ==
    /\ Done /\ OwnId /\ sent # <<>> /\ noise = NoNoise
    /\ Addressed
    /\ \E i \in 1..Len(Call.data) : Call.data[i] = EOT

\* C5 as stated: process() returns NO_ERROR with the frame's whole payload.
C5_Original ==
    C5_Case
    => /\ result[1].error = NO_ERROR
       /\ result[1].msg.data = Call.data

\* ----------------------------------------------------------------------- C6

\* get_msg was given a buffer that ends in EOT and that the validator answers
\* with BAD_LEN_FIELD: it enters recovery
C6_Recovering ==
    /\ HasData
    /\ FirstData[Len(FirstData)] = EOT
    /\ Validate(FirstData).error = BAD_LEN_FIELD

\* C6: once get_msg has entered recovery, process() returns after exactly one
\* more read; when that read brought anything but the single EOT byte (another
\* byte, several bytes, nothing), the result is BAD_FORMAT with an empty
\* record, extract_fields ran once only, no handler ran, nothing was written.
C6_RecoveryFails ==
    (Done /\ C6_Recovering)
    => /\ Len(reads) = FirstDataIdx + 1
       /\ reads[Len(reads)] # <<EOT>>
            => /\ result = <<Returned(BAD_FORMAT, EmptyDict)>>
               /\ validations = 1
               /\ in_data = FirstData
               /\ calls = <<>>
               /\ written = <<>>

\* an untouched frame whose third payload byte is EOT: the recovery read brings
\* ETX, checksum and EOT
C6_Witness ==
    /\ Done /\ C6_Recovering
    /\ sent # <<>> /\ noise = NoNoise /\ Addressed
    /\ Len(reads[Len(reads)]) = 3
    /\ result = <<Returned(BAD_FORMAT, EmptyDict)>>

\* ---------------------------------------------------------------------- C11

\* what get_msg made of the reads of this process() call: the validator's
\* answer to the first buffer, or what the recovery came to
Outcome ==
    IF C6_Recovering /\ Len(reads) > FirstDataIdx
    THEN get_msg_recover(station, config.ALLOW_DATA_WITH_BAD_CHECKSUM, FirstData,
                         PyBytes(reads[FirstDataIdx + 1])).got
    ELSE Validate(FirstData)

\* reads a process() call makes after its first buffer: one in recovery
RecoveryReads == IF C6_Recovering THEN 1 ELSE 0

\* C11: when the outcome of a process() call is not NO_ERROR (BAD_FORMAT from
\* the recovery included), process() returns that outcome with an empty record,
\* no handler was invoked, nothing was written, and no read was made beyond
\* those of this frame.
C11_FailureEnds ==
    (Done /\ Outcome.error # NO_ERROR)
    => /\ result = <<Returned(Outcome.error, EmptyDict)>>
       /\ calls = <<>>
       /\ written = <<>>
       /\ Len(reads) = FirstDataIdx + RecoveryReads

\* a frame whose command has a caller's handler fails in recovery while bytes
\* are still pending on the port
C11_Witness ==
    /\ Done /\ sent # <<>>
    /\ result = <<Returned(BAD_FORMAT, EmptyDict)>>
    /\ chr(At(in_data, CMD_IDX)) \in DOMAIN commands_functions
    /\ rx # <<>>
    /\ calls = <<>> /\ written = <<>>

\* ---------------------------------------------------------------------- C12

\* the keys of the dispatch table that stand for the command id c
KeysOf(c) == {key \in DOMAIN commands_functions : key.val = <<c>>}

\* C12 as stated: a decoded frame whose command a caller registered a handler
\* for (by int or by character) invokes exactly once the handler registered
\* last, with the decoded record; and once a caller registered a handler for
\* ping, the dispatch table holds that handler only for ping.
C12_Original ==
    /\ (Done /\ result[1].error = NO_ERROR
             /\ At(in_data, CMD_IDX) \in RegCmds
             /\ registered[At(in_data, CMD_IDX)] # None)
        => calls = <<[f |-> registered[At(in_data, CMD_IDX)],
                      msg |-> result[1].msg]>>
    /\ registered[ICSC_SYS_PING] # None
        => \A key \in KeysOf(ICSC_SYS_PING) :
              commands_functions[key] = registered[ICSC_SYS_PING]

\* ---------------------------------------------------------------------- C13

\* what extract_fields answers to the bytes on the line with
\* ALLOW_DATA_WITH_BAD_CHECKSUM unset
Strict == extract_fields(station, FALSE, rx)

\* the record of the bytes on the line, field by field
Record(b) ==
    [dest_id |-> chr(b[2]), orig_id |-> chr(b[3]), cmd |-> chr(b[4]),
     dat_len |-> b[5], data |-> SubSeq(b, 7, Len(b) - 3)]

\* C13: with ALLOW_DATA_WITH_BAD_CHECKSUM set extract_fields never returns
\* BAD_CHECKSUM and returns what it returns with the flag unset, except that a
\* buffer answered BAD_CHECKSUM then is answered NO_ERROR with the decoded
\* record; with the flag unset NO_ERROR implies that the byte at LEN+7 is
\* (DEST + ORIG + CMD + LEN + sum of the payload) mod 256.
C13_FlagOnly ==
    Extracted
    => /\ config.ALLOW_DATA_WITH_BAD_CHECKSUM
          => /\ out[1].error # BAD_CHECKSUM
             /\ Strict.error # BAD_CHECKSUM => out[1] = Strict
             /\ Strict.error = BAD_CHECKSUM
                   => out[1] = Returned(NO_ERROR, Record(rx))
       /\ (~config.ALLOW_DATA_WITH_BAD_CHECKSUM /\ out[1].error = NO_ERROR)
          => rx[rx[5] + 8]
               = (rx[2] + rx[3] + rx[4] + rx[5] + sum(SubSeq(rx, 7, rx[5] + 6))) % 256

\* a payload byte was changed on the line and the flag lets the frame through
C13_Witness ==
    /\ Extracted
    /\ config.ALLOW_DATA_WITH_BAD_CHECKSUM
    /\ noise.kind = "alter" /\ noise.at \subseteq PayloadIdx(Len(rx))
    /\ Strict.error = BAD_CHECKSUM
    /\ out[1] = Returned(NO_ERROR, Record(rx))

\* ---------------------------------------------------------------------- C14

\* the buffer the next read of the port returns
NextBuffer == read_until(rx).in_data

\* results of the recovery read: what is pending behind that buffer, nothing,
\* the EOT byte alone
RecoveryResults == {read_until(read_until(rx).rest).in_data, <<>>, <<EOT>>}

\* C14: whatever bytes are pending on the port (none, fewer than nine, a frame
\* whole or changed), and whatever the recovery read brings, extract_fields
\* and get_msg return a pair; they raise neither on an index (LEN offset,
\* etx_idx, eot_idx, checksum offset) nor on an operation of the buffer.
C14_NoFault ==
    /\ ~extract_fields_raises(station, config.ALLOW_DATA_WITH_BAD_CHECKSUM, rx)
    /\ \A remaining \in RecoveryResults :
          ~get_msg_raises(station, config.ALLOW_DATA_WITH_BAD_CHECKSUM,
                          PyBytes(NextBuffer), PyBytes(remaining))

\* get_msg was in recovery and its recovery read brought the EOT byte alone
C14_Witness ==
    /\ Done /\ C6_Recovering
    /\ reads[Len(reads)] = <<EOT>>
    /\ result = <<Returned(BAD_FORMAT, EmptyDict)>>

\* ---------------------------------------------------------------------- C15

\* a peer's send call has written, and the line has not touched the bytes
Written == sent # <<>> /\ noise = NoNoise

\* C15: what send writes is SOH, dest, the sender's id, cmd, the payload
\* length, STX, the payload bytes in order, ETX, (dest + origin + cmd + length
\* + sum of the payload) mod 256, EOT; 9 + length bytes, one frame per call.
C15_FrameLayout ==
    Written
    => /\ rx = <<SOH, Call.dest, Call.orig, Call.cmd, Len(Call.data), STX>>
               \o Call.data
               \o <<ETX,
                    (Call.dest + Call.orig + Call.cmd + Len(Call.data)
                        + sum(Call.data)) % 256,
                    EOT>>
       /\ Len(rx) = 9 + Len(Call.data)

\* a frame with the longest payload whose checksum wrapped round
C15_Witness ==
    /\ Written
    /\ Len(Call.data) = MaxPayload
    /\ Call.dest + Call.orig + Call.cmd + Len(Call.data) + sum(Call.data) >= 256
    /\ Len(rx) = 9 + MaxPayload
    /\ rx[Len(rx) - 1] < Call.orig

\* ---------------------------------------------------------------------- C16

\* station 'B' has sent the payload data to 'A' with command 'X'
Example(data) ==
    /\ Written
    /\ Call.orig = ord(ExampleStation)
    /\ Call.dest = ord(ExampleDest)
    /\ Call.cmd = ord(ExampleCmd)
    /\ Call.arg = data

\* C16: from station 'B' to 'A' with command 'X', send writes
\* 01 41 42 58 04 02 35 33 32 33 03 ac 04 for the number 5323 with
\* SEND_NUMBER_AS_STR set, 01 41 42 58 08 02 48 4f 4c 41 41 41 41 41 03 0b 04
\* for the text "HOLAAAAA", and 01 41 42 58 04 02 01 52 63 85 03 1a 04 for the
\* list [0x01, 0x52, 0x63, 0x85].
C16_Examples ==
    /\ (Example(ExampleNumber) /\ Call.number_as_str)
       => rx = <<1, 65, 66, 88, 4, 2, 53, 51, 50, 51, 3, 172, 4>>
    /\ Example(ExampleText)
       => rx = <<1, 65, 66, 88, 8, 2, 72, 79, 76, 65, 65, 65, 65, 65, 3, 11, 4>>
    /\ Example(ExampleList)
       => rx = <<1, 65, 66, 88, 4, 2, 1, 82, 99, 133, 3, 26, 4>>

\* the number 5323 went out as its four digits
C16_Witness ==
    /\ Example(ExampleNumber) /\ Call.number_as_str
    /\ Call.data = <<53, 51, 50, 51>>
    /\ Len(rx) = 13

\* ---------------------------------------------------------------------- C17

\* the last read of this process() call
LastRead == reads[Len(reads)]

\* ON_TIMEOUT_CALLBACK was called once for every read that raised TimeoutError,
\* when there is one
CalledBack ==
    callbacks = IF config.ON_TIMEOUT_CALLBACK # None THEN timeouts ELSE 0

\* C17 as stated: no process() call ends on a read that brought nothing or
\* raised TimeoutError; the callback, if any, is called once per TimeoutError;
\* and process() returns only after a read that brought data.
C17_Original ==
    /\ Done => LastRead # <<>>
    /\ CalledBack
    /\ Done => HasData

\* C17, amended: a read of the loop of process() that brought nothing or raised
\* TimeoutError leaves process() waiting, without a result; the callback, if
\* any, is called once per TimeoutError; process() returns only after a read
\* that brought data, and then at once or after the one recovery read; a
\* recovery read that brought nothing ends the call with BAD_FORMAT.
C17_IdleReads ==
    /\ pc = "reading"
       => /\ result = <<>>
          /\ \A k \in 1..Len(reads) : reads[k] = <<>>
    /\ CalledBack
    /\ Done => HasData
    /\ HasData
       => /\ pc \in {"recovering", "done"}
          /\ pc = "recovering" => (C6_Recovering /\ Len(reads) = FirstDataIdx)
    /\ (Done /\ LastRead = <<>>)
       => /\ C6_Recovering
          /\ Len(reads) = FirstDataIdx + 1
          /\ result = <<Returned(BAD_FORMAT, EmptyDict)>>

\* a read raised TimeoutError, the callback was called, the frame arrived and
\* process() returned its record
C17_Witness ==
    /\ Done
    /\ reads[1] = <<>> /\ timeouts = 1 /\ callbacks = 1
    /\ sent # <<>> /\ LastRead = Frame
    /\ result[1].error = NO_ERROR

\* ---------------------------------------------------------------------- C18

\* C18 as stated: a process() call reads the port at most once, and once more
\* only when the validator answered BAD_LEN_FIELD to a buffer ending in EOT;
\* extract_fields runs at most twice; for any other answer no further read is
\* made and the validator's answer is returned.
C18_Original ==
    Done
    => /\ Len(reads) <= 1 + RecoveryReads
       /\ validations <= 2
       /\ ~C6_Recovering
          => /\ Len(reads) = FirstDataIdx
             /\ result[1].error = Validate(FirstData).error

\* C18, amended: a process() call makes, beside the reads of its loop that
\* brought nothing, one read that brought data, and one more only when the
\* validator answered BAD_LEN_FIELD to a buffer ending in EOT; extract_fields
\* runs at most twice; for any other answer no further read is made and the
\* validator's answer is returned.
C18_BoundedReads ==
    /\ HasData
       => /\ Len(reads) <= FirstDataIdx + RecoveryReads
          /\ \A k \in 1..(FirstDataIdx - 1) : reads[k] = <<>>
    /\ validations <= 2
    /\ Done
       => /\ Len(reads) = FirstDataIdx + RecoveryReads
          /\ validations >= 1
          /\ ~C6_Recovering
             => /\ validations = 1
                /\ result[1].error = Validate(FirstData).error
                /\ in_data = FirstData

\* process() returned WRONG_DEST_STATION for a frame after a read that brought
\* nothing and one that brought the frame
C18_Witness ==
    /\ Done
    /\ Len(reads) = 2 /\ reads[1] = <<>>
    /\ ~C6_Recovering
    /\ result = <<Returned(WRONG_DEST_STATION, EmptyDict)>>
    /\ validations = 1

\* ---------------------------------------------------------------------- C19

\* extract_fields got as far as the payload: length, destination and markers
\* were right
ReachedPayload == Extracted /\ out[1].error \in {NO_ERROR, BAD_CHECKSUM}

\* C19: when extract_fields reaches the payload and the checksum, the slice
\* data[6:-3] is data[6:etx_idx] and the byte at len-2 is the byte at
\* eot_idx-1, with etx_idx = LEN+6 and eot_idx = etx_idx+2; a record's data has
\* dat_len bytes, and its dest_id, orig_id and cmd are the bytes at offsets 1,
\* 2 and 3.
C19_SliceEquivalence ==
    ReachedPayload
    => LET etx_idx == At(rx, DAT_LEN_IDX) + 6
           eot_idx == etx_idx + 2
       IN  /\ Slice(rx, STX_IDX + 1, -3) = SubSeq(rx, (STX_IDX + 1) + 1, etx_idx)
           /\ At(rx, Len(rx) - 2) = At(rx, eot_idx - 1)
           /\ out[1].error = NO_ERROR
              => /\ out[1].msg.data = SubSeq(rx, (STX_IDX + 1) + 1, etx_idx)
                 /\ Len(out[1].msg.data) = out[1].msg.dat_len
                 /\ out[1].msg.dest_id = chr(At(rx, 1))
                 /\ out[1].msg.orig_id = chr(At(rx, 2))
                 /\ out[1].msg.cmd = chr(At(rx, 3))

\* the record of a frame with the longest payload, one of its bytes changed
\* on the line
C19_Witness ==
    /\ ReachedPayload
    /\ out[1].error = NO_ERROR
    /\ noise.kind = "alter"
    /\ out[1].msg.dat_len = MaxPayload
    /\ out[1].msg.data # Call.data

\* ---------------------------------------------------------------------- C20

\* process() has returned after a peer sent this station, by its id, a frame
\* with no EOT-valued byte before its last, and the line left it untouched
C20_Case ==
    /\ Done
    /\ Written
    /\ Call.dest = station
    /\ \A i \in 1..(Len(Frame) - 1) : Frame[i] # EOT

\* C20: such a frame is returned by process() as NO_ERROR with the origin,
\* command and payload of the send call, after one read that brought data (the
\* whole frame) and no recovery read, and none of its bytes is left on the port.
C20_Delivery ==
    C20_Case
    => /\ result[1].error = NO_ERROR
       /\ result[1].msg.dest_id = chr(Call.dest)
       /\ result[1].msg.orig_id = chr(Call.orig)
       /\ result[1].msg.cmd = chr(Call.cmd)
       /\ result[1].msg.dat_len = Len(Call.data)
       /\ result[1].msg.data = Call.data
       /\ FirstData = Frame
       /\ Len(reads) = FirstDataIdx
       /\ validations = 1
       /\ rx = <<>>

\* a station with an id of its own received a frame with a payload
C20_Witness ==
    /\ C20_Case
    /\ station # ICSC_BROADCAST
    /\ Call.data # <<>>
    /\ result = <<Returned(NO_ERROR, Record(Frame))>>
    /\ rx = <<>>

====
